---- MODULE Spec2Model ----
(***************************************************************************)
(* A model of the graphy crate: Graph (src/src/graph.rs) over the          *)
(* manually managed Shared handles (src/src/shared.rs) with the            *)
(* DirectedWeightedEdge variant (src/src/edge/directed_weighted.rs).       *)
(*                                                                         *)
(* The heap is explicit: every Shared::new makes a new cell, every         *)
(* Shared::drop marks the cell destroyed and counts the destruction, and   *)
(* every dereference of a handle looks at the cell's liveness.  A          *)
(* dereference of a destroyed cell is undefined behaviour: what is read    *)
(* there is a nondeterministic choice (the memory may hold the old         *)
(* contents, another allocation or anything else), and what is written     *)
(* there is lost.                                                          *)
(***************************************************************************)
EXTENDS Integers, Sequences, FiniteSets, TLC

\* ---------------------------------------------------------------- bounds
\* add_vertex is offered while current_vertex_id < MaxVertexId
MaxVertexId == 3
\* edge creating calls are offered while current_edge_id < MaxEdgeId
MaxEdgeId == 2
\* allocations are offered while fewer than MaxAlloc cells were ever made
MaxAlloc == 5
\* weights returned by the weight callback are 0..MaxWeight
MaxWeight == 1
\* remove of an absent id is offered while vertex_len is less than MaxSkew
\* below the size of the vertex registry
MaxSkew == 1
\* tokens are minted while fewer than MaxTokens exist, cells made while fewer
\* than MaxCells exist, and the brands ('id) they are made with are 1..MaxBrand
MaxTokens == 3
MaxCells == 2
MaxBrand == 2
MaxEdgeError == 1
MaxShared == 6

\* usize arithmetic is modulo UsizeModulus (a 16 bit target)
UsizeModulus == 65536

VertexIds == 0..MaxVertexId
EdgeIds == 0..(MaxEdgeId - 1)
Weights == 0..MaxWeight
NoId == -1
Brands == 1..MaxBrand
\* the values of Edge::Error of an edge variant whose add_edge can refuse
EdgeErrors == 0..MaxEdgeError

VARIABLES
    vertices,           \* Graph.vertices: VertexId -> handle of the vertex cell
    edges,              \* Graph.edges: EdgeId -> handle of the edge cell
    current_vertex_id,  \* Graph.current_vertex_id
    current_edge_id,    \* Graph.current_edge_id
    vertex_len,         \* Graph.vertex_len
    edge_len,           \* Graph.edge_len
    heap,               \* handle -> cell, every cell ever allocated
    overflow_checks,    \* the build panics on usize overflow (debug) or wraps
    last,               \* the last call: operation and returned value
    returned            \* the ids that successful calls have returned so far, and
                        \* adds: the number of calls so far if all were add_vertex

VARIABLES
    tokens,             \* the GhostTokens that exist: token -> its brand 'id and
                        \* the constructor that made it
    cells,              \* the GhostCells that exist: cell -> its brand 'id
    borrows             \* the references handed out by g_borrow and g_borrow_mut
                        \* that are still alive: token, cell, read or write

graph_vars == <<vertices, edges, current_vertex_id, current_edge_id, vertex_len,
                edge_len, heap, overflow_checks, last, returned>>

ghost_vars == <<tokens, cells, borrows>>

vars == <<graph_vars, ghost_vars>>

\* ------------------------------------------------------------ hash maps
EmptyMap == [k \in {} |-> 0]

MapInsert(m, k, v) == [x \in (DOMAIN m) \cup {k} |-> IF x = k THEN v ELSE m[x]]

MapRemove(m, k) == [x \in (DOMAIN m) \ {k} |-> m[x]]

\* the orders in which a hash map can yield the keys S
KeyOrders(S) ==
    {s \in [1..Cardinality(S) -> S] : \A i, j \in 1..Cardinality(S) : s[i] = s[j] => i = j}

\* ---------------------------------------------------------------- usize
usize_add(x, y) == [overflow |-> x + y >= UsizeModulus, value |-> (x + y) % UsizeModulus]

usize_sub(x, y) == [overflow |-> x < y, value |-> (x - y + UsizeModulus) % UsizeModulus]

\* --------------------------------------------------------------- Shared
\* Shared::new: a new allocation
NewPtr(h) == Cardinality(DOMAIN h) + 1

Shared_new(h, cell) == MapInsert(h, NewPtr(h), cell)

\* Shared::drop: drop_in_place and deallocate; of a destroyed cell the heap keeps
\* what it was and how often it was destroyed, not the contents
Shared_drop(h, ptr) ==
    [h EXCEPT ![ptr] = [kind |-> @.kind, live |-> FALSE, drops |-> @.drops + 1]]

\* Vertex::new
Vertex_new(id) == [kind |-> "Vertex", live |-> TRUE, drops |-> 0, id |-> id, edges |-> EmptyMap]

\* DirectedWeightedEdge(weight, sender, receiver)
Edge_new(weight, first, second) ==
    [kind |-> "Edge", live |-> TRUE, drops |-> 0, weight |-> weight,
     first |-> first, second |-> second]

\* ---------------------------------------------------------------- Graph
\* the graph and the heap as one value
Self ==
    [vertices |-> vertices, edges |-> edges, heap |-> heap,
     current_vertex_id |-> current_vertex_id, current_edge_id |-> current_edge_id,
     vertex_len |-> vertex_len, edge_len |-> edge_len]

\* what a call gives back: the graph after it, the returned value, whether the
\* create path of an edge creating call ran, and whether a destroyed cell was
\* dereferenced
Out(g, ret, val, path, uaf) == [g |-> g, ret |-> ret, val |-> val, path |-> path, uaf |-> uaf]

\* Graph::new
Graph_new ==
    [vertices |-> EmptyMap, edges |-> EmptyMap, heap |-> EmptyMap,
     current_vertex_id |-> 0, current_edge_id |-> 0, vertex_len |-> 0, edge_len |-> 0]

\* the keys of the adjacency map of the vertex cell behind ptr
Keys(g, ptr) == DOMAIN g.heap[ptr].edges

\* the adjacency map of the vertex that the registry holds under v, and its size
Adj(g, v) == g.heap[g.vertices[v]].edges

Size(g, v) == Cardinality(DOMAIN Adj(g, v))

\* the keys of id_one's adjacency map that id_two's adjacency map contains
SharedKeys(g, id_one, id_two) ==
    Keys(g, g.vertices[id_one]) \cap Keys(g, g.vertices[id_two])

\* Graph::adjacent naming id_one, not id_two, in the error it falls through to
adjacent_reports_first(g, id_one, id_two) ==
    IF id_one \notin DOMAIN g.vertices
    THEN [ret |-> "VertexNotFound", val |-> id_one]
    ELSE IF id_two \in DOMAIN g.vertices /\ SharedKeys(g, id_one, id_two) # {}
         THEN [ret |-> "Ok", val |-> TRUE]
         ELSE [ret |-> "VertexNotFound", val |-> id_one]

\* Graph::adjacent
adjacent(g, id_one, id_two) ==
    IF id_one \notin DOMAIN g.vertices
    THEN [ret |-> "VertexNotFound", val |-> id_one]
    ELSE IF id_two \in DOMAIN g.vertices /\ SharedKeys(g, id_one, id_two) # {}
         THEN [ret |-> "Ok", val |-> TRUE]
         ELSE [ret |-> "VertexNotFound", val |-> id_two]

\* Graph::add_vertex returning the id counter after its increment
add_vertex_id_after_increment(g) ==
    LET id == g.current_vertex_id + 1
        len == usize_add(g.vertex_len, 1)
        ptr == NewPtr(g.heap)
        g1 == [g EXCEPT !.current_vertex_id = @ + 1]
    IN  IF len.overflow /\ overflow_checks
        THEN Out(g1, "panic", id, "none", FALSE)
        ELSE Out([g1 EXCEPT !.vertex_len = len.value,
                            !.heap = Shared_new(g.heap, Vertex_new(id)),
                            !.vertices = MapInsert(g.vertices, id, ptr)],
                 "Ok", id, "none", FALSE)

\* Graph::add_vertex taking the id from vertex_len, not from the id counter
add_vertex_id_from_len(g) ==
    LET id == g.vertex_len
        len == usize_add(g.vertex_len, 1)
        ptr == NewPtr(g.heap)
        g1 == [g EXCEPT !.current_vertex_id = @ + 1]
    IN  IF len.overflow /\ overflow_checks
        THEN Out(g1, "panic", id, "none", FALSE)
        ELSE Out([g1 EXCEPT !.vertex_len = len.value,
                            !.heap = Shared_new(g.heap, Vertex_new(id)),
                            !.vertices = MapInsert(g.vertices, id, ptr)],
                 "Ok", id, "none", FALSE)

\* Graph::add_vertex
add_vertex(g) ==
    LET id == g.current_vertex_id
        len == usize_add(g.vertex_len, 1)
        ptr == NewPtr(g.heap)
        g1 == [g EXCEPT !.current_vertex_id = @ + 1]
    IN  IF len.overflow /\ overflow_checks
        THEN Out(g1, "panic", id, "none", FALSE)
        ELSE Out([g1 EXCEPT !.vertex_len = len.value,
                            !.heap = Shared_new(g.heap, Vertex_new(id)),
                            !.vertices = MapInsert(g.vertices, id, ptr)],
                 "Ok", id, "none", FALSE)

\* DirectedWeightedEdge::add_edge without the insertion into second's adjacency
\* map: the edge is linked at one endpoint only
Edge_add_edge_first_only(g, weight, first, second, id) ==
    LET edge == NewPtr(g.heap)
        h1 == Shared_new(g.heap, Edge_new(weight, first, second))
        h2 == [h1 EXCEPT ![first].edges = MapInsert(@, id, edge)]
    IN  [g EXCEPT !.heap = h2, !.edges = MapInsert(g.edges, id, edge)]

\* DirectedWeightedEdge::add_edge
Edge_add_edge(g, weight, first, second, id) ==
    LET edge == NewPtr(g.heap)
        h1 == Shared_new(g.heap, Edge_new(weight, first, second))
        h2 == [h1 EXCEPT ![first].edges = MapInsert(@, id, edge)]
        h3 == [h2 EXCEPT ![second].edges = MapInsert(@, id, edge)]
    IN  [g EXCEPT !.heap = h3, !.edges = MapInsert(g.edges, id, edge)]

\* Graph::add_edge without the id_one == id_two test
add_edge_no_identical_check(g, id_one, id_two, weight) ==
    LET id == g.current_edge_id
        g1 == [g EXCEPT !.current_edge_id = @ + 1]
        adj == adjacent(g1, id_one, id_two)
    IN  IF adj.ret # "Ok"
        THEN Out(g1, adj.ret, adj.val, "none", FALSE)
        ELSE IF adj.val
        THEN Out(g1, "AlreadyEdgeBetween", NoId, "none", FALSE)
        ELSE LET g2 == Edge_add_edge(g1, weight, g1.vertices[id_one], g1.vertices[id_two], id)
             IN  Out([g2 EXCEPT !.edge_len = usize_add(@, 1).value], "Ok", id, "create", FALSE)

\* Graph::add_edge without the adjacency test, as Graph::add_edge of lib.rs
add_edge_no_adjacent_check(g, id_one, id_two, weight) ==
    LET id == g.current_edge_id
        g1 == [g EXCEPT !.current_edge_id = @ + 1]
    IN  IF id_one = id_two
        THEN Out(g1, "IdenticalVertex", id_one, "none", FALSE)
        ELSE IF id_one \notin DOMAIN g1.vertices
        THEN Out(g1, "VertexNotFound", id_one, "none", FALSE)
        ELSE IF id_two \notin DOMAIN g1.vertices
        THEN Out(g1, "VertexNotFound", id_two, "none", FALSE)
        ELSE LET g2 == Edge_add_edge(g1, weight, g1.vertices[id_one], g1.vertices[id_two], id)
             IN  Out([g2 EXCEPT !.edge_len = usize_add(@, 1).value], "Ok", id, "create", FALSE)

\* Graph::add_edge taking the new edge id after the validation, not before it
add_edge_id_after_validation(g, id_one, id_two, weight) ==
    LET id == g.current_edge_id
        g1 == [g EXCEPT !.current_edge_id = @ + 1]
        adj == adjacent(g, id_one, id_two)
    IN  IF id_one = id_two
        THEN Out(g, "IdenticalVertex", id_one, "none", FALSE)
        ELSE IF adj.ret # "Ok"
        THEN Out(g, adj.ret, adj.val, "none", FALSE)
        ELSE IF adj.val
        THEN Out(g, "AlreadyEdgeBetween", NoId, "none", FALSE)
        ELSE LET g2 == Edge_add_edge(g1, weight, g1.vertices[id_one], g1.vertices[id_two], id)
             IN  Out([g2 EXCEPT !.edge_len = usize_add(@, 1).value], "Ok", id, "create", FALSE)

\* Graph::add_edge, had it invoked the weight callback before its validation
add_edge_callback_first(g, id_one, id_two, weight) ==
    LET id == g.current_edge_id
        g1 == [g EXCEPT !.current_edge_id = @ + 1]
        adj == adjacent(g1, id_one, id_two)
    IN  IF id_one = id_two
        THEN Out(g1, "IdenticalVertex", id_one, "create", FALSE)
        ELSE IF adj.ret # "Ok"
        THEN Out(g1, adj.ret, adj.val, "create", FALSE)
        ELSE IF adj.val
        THEN Out(g1, "AlreadyEdgeBetween", NoId, "create", FALSE)
        ELSE IF id_one \notin DOMAIN g1.vertices
        THEN Out(g1, "VertexNotFound", id_one, "create", FALSE)
        ELSE IF id_two \notin DOMAIN g1.vertices
        THEN Out(g1, "VertexNotFound", id_two, "create", FALSE)
        ELSE LET g2 == Edge_add_edge(g1, weight, g1.vertices[id_one], g1.vertices[id_two], id)
             IN  Out([g2 EXCEPT !.edge_len = usize_add(@, 1).value], "Ok", id, "create", FALSE)

\* Graph::add_edge, weight being what the weight callback returns
add_edge(g, id_one, id_two, weight) ==
    LET id == g.current_edge_id
        g1 == [g EXCEPT !.current_edge_id = @ + 1]
        adj == adjacent(g1, id_one, id_two)
    IN  IF id_one = id_two
        THEN Out(g1, "IdenticalVertex", id_one, "none", FALSE)
        ELSE IF adj.ret # "Ok"
        THEN Out(g1, adj.ret, adj.val, "none", FALSE)
        ELSE IF adj.val
        THEN Out(g1, "AlreadyEdgeBetween", NoId, "none", FALSE)
        ELSE IF id_one \notin DOMAIN g1.vertices
        THEN Out(g1, "VertexNotFound", id_one, "none", FALSE)
        ELSE IF id_two \notin DOMAIN g1.vertices
        THEN Out(g1, "VertexNotFound", id_two, "none", FALSE)
        ELSE LET g2 == Edge_add_edge(g1, weight, g1.vertices[id_one], g1.vertices[id_two], id)
             IN  Out([g2 EXCEPT !.edge_len = usize_add(@, 1).value], "Ok", id, "create", FALSE)

\* Graph::create_or_update_edge_between without the write of the weight on the
\* update path
create_or_update_edge_between_no_write(g, id_one, id_two, weight, found) ==
    IF id_one = id_two
    THEN Out(g, "IdenticalVertex", id_one, "none", FALSE)
    ELSE IF id_one \notin DOMAIN g.vertices
    THEN Out(g, "VertexNotFound", id_one, "none", FALSE)
    ELSE IF id_two \notin DOMAIN g.vertices
    THEN Out(g, "VertexNotFound", id_two, "none", FALSE)
    ELSE IF found # NoId
    THEN Out(g, "Ok", found, "update", FALSE)
    ELSE LET id == g.current_edge_id
             g1 == [g EXCEPT !.current_edge_id = @ + 1]
             g2 == Edge_add_edge(g1, weight, g1.vertices[id_one], g1.vertices[id_two], id)
         IN  Out([g2 EXCEPT !.edge_len = usize_add(@, 1).value], "Ok", id, "create", FALSE)

\* Graph::create_or_update_edge_between, had it not used what the scan found
create_or_update_edge_between_always_creates(g, id_one, id_two, weight, found) ==
    IF id_one = id_two
    THEN Out(g, "IdenticalVertex", id_one, "none", FALSE)
    ELSE IF id_one \notin DOMAIN g.vertices
    THEN Out(g, "VertexNotFound", id_one, "none", FALSE)
    ELSE IF id_two \notin DOMAIN g.vertices
    THEN Out(g, "VertexNotFound", id_two, "none", FALSE)
    ELSE LET id == g.current_edge_id
             g1 == [g EXCEPT !.current_edge_id = @ + 1]
             g2 == Edge_add_edge(g1, weight, g1.vertices[id_one], g1.vertices[id_two], id)
         IN  Out([g2 EXCEPT !.edge_len = usize_add(@, 1).value], "Ok", id, "create", FALSE)

\* Graph::create_or_update_edge_between; found is what the scan of the two
\* adjacency maps ended with (NoId: no shared key)
create_or_update_edge_between(g, id_one, id_two, weight, found) ==
    IF id_one = id_two
    THEN Out(g, "IdenticalVertex", id_one, "none", FALSE)
    ELSE IF id_one \notin DOMAIN g.vertices
    THEN Out(g, "VertexNotFound", id_one, "none", FALSE)
    ELSE IF id_two \notin DOMAIN g.vertices
    THEN Out(g, "VertexNotFound", id_two, "none", FALSE)
    ELSE IF found # NoId
    THEN LET edge == g.heap[g.vertices[id_one]].edges[found]
         IN  IF g.heap[edge].live
             THEN Out([g EXCEPT !.heap[edge].weight = weight], "Ok", found, "update", FALSE)
             ELSE Out(g, "Ok", found, "update", TRUE)
    ELSE LET id == g.current_edge_id
             g1 == [g EXCEPT !.current_edge_id = @ + 1]
             g2 == Edge_add_edge(g1, weight, g1.vertices[id_one], g1.vertices[id_two], id)
         IN  Out([g2 EXCEPT !.edge_len = usize_add(@, 1).value], "Ok", id, "create", FALSE)

\* Graph::clear: the drain of a registry, every handle dropped
RECURSIVE drain(_, _)
drain(h, ptrs) ==
    IF ptrs = {} THEN h
    ELSE LET p == CHOOSE x \in ptrs : TRUE IN drain(Shared_drop(h, p), ptrs \ {p})

Range(m) == {m[k] : k \in DOMAIN m}

\* Graph::clear without the reset of edge_len
clear_keeps_edge_len(g) ==
    LET h1 == drain(g.heap, Range(g.vertices))
        h2 == drain(h1, Range(g.edges))
    IN  [Graph_new EXCEPT !.heap = h2, !.edge_len = g.edge_len]

\* Graph::clear
clear(g) ==
    LET h1 == drain(g.heap, Range(g.vertices))
        h2 == drain(h1, Range(g.edges))
    IN  [Graph_new EXCEPT !.heap = h2]

\* what the dereferences of destroyed cells yield during one call: other is the
\* handle (0: none) that other() gives on a destroyed edge cell, match whether
\* the id read from a destroyed vertex cell is the id looked for, found whether
\* a key is found in the adjacency map of a destroyed vertex cell
VertexPtrs(h) == {p \in DOMAIN h : h[p].kind = "Vertex"}

UB(h) == [other : {0} \cup VertexPtrs(h), match : BOOLEAN, found : BOOLEAN]

NoUB == [other |-> 0, match |-> FALSE, found |-> FALSE]

\* whether the id of the vertex cell behind ptr is id
IdIs(h, ptr, id, ub) == IF h[ptr].live THEN h[ptr].id = id ELSE ub.match

\* other, had it handed back the endpoint whose id it was given
Edge_other_own_endpoint(h, edge, id, ub) ==
    LET cell == h[edge]
    IN  IF ~cell.live
        THEN [some |-> ub.other # 0, ptr |-> ub.other, uaf |-> TRUE]
        ELSE IF IdIs(h, cell.first, id, ub)
        THEN [some |-> TRUE, ptr |-> cell.first, uaf |-> ~h[cell.first].live]
        ELSE IF IdIs(h, cell.second, id, ub)
        THEN [some |-> TRUE, ptr |-> cell.second,
              uaf |-> ~h[cell.first].live \/ ~h[cell.second].live]
        ELSE [some |-> FALSE, ptr |-> 0,
              uaf |-> ~h[cell.first].live \/ ~h[cell.second].live]

\* DirectedWeightedEdge::other, on the edge cell behind edge
Edge_other(h, edge, id, ub) ==
    LET cell == h[edge]
    IN  IF ~cell.live
        THEN [some |-> ub.other # 0, ptr |-> ub.other, uaf |-> TRUE]
        ELSE IF IdIs(h, cell.first, id, ub)
        THEN [some |-> TRUE, ptr |-> cell.second, uaf |-> ~h[cell.first].live]
        ELSE IF IdIs(h, cell.second, id, ub)
        THEN [some |-> TRUE, ptr |-> cell.first,
              uaf |-> ~h[cell.first].live \/ ~h[cell.second].live]
        ELSE [some |-> FALSE, ptr |-> 0,
              uaf |-> ~h[cell.first].live \/ ~h[cell.second].live]

\* the while loop of Graph::remove and the drop of to_remove after it; seq is the
\* vector of edge ids still to pop, uaf whether a destroyed cell was dereferenced
RECURSIVE remove_loop(_, _, _, _, _, _)
remove_loop(g, id, to_remove, seq, ub, uaf) ==
    IF seq = << >>
    THEN Out([g EXCEPT !.heap = Shared_drop(g.heap, to_remove)], "Ok", id, "none", uaf)
    ELSE
    LET e_id == seq[Len(seq)]
        rest == SubSeq(seq, 1, Len(seq) - 1)
        one == g.heap[to_remove].edges[e_id]
        g1 == [g EXCEPT !.heap[to_remove].edges = MapRemove(@, e_id)]
        other == Edge_other(g1.heap, one, id, ub)
        two == other.ptr
        dead == ~g1.heap[two].live
        uaf2 == uaf \/ other.uaf \/ dead
        found == IF dead THEN ub.found ELSE e_id \in DOMAIN g1.heap[two].edges
        g2 == IF dead THEN g1 ELSE [g1 EXCEPT !.heap[two].edges = MapRemove(@, e_id)]
        g3 == [g2 EXCEPT !.edges = MapRemove(@, e_id),
                         !.heap = Shared_drop(g2.heap, g2.edges[e_id])]
    IN  IF ~other.some
        THEN Out(g1, "VertexNotFound", id, "none", uaf \/ other.uaf)
        ELSE IF ~found
        THEN Out(g1, "EdgeNotFound", e_id, "none", uaf2)
        ELSE IF e_id \notin DOMAIN g2.edges
        THEN Out(g2, "EdgeNotFound", e_id, "none", uaf2)
        ELSE remove_loop(g3, id, to_remove, rest, ub, uaf2)

\* Graph::remove, had it handed the id of the removed vertex back to the counter
remove_reclaims_id(g, id, seq, ub) ==
    LET len == usize_sub(g.vertex_len, 1)
        g1 == [g EXCEPT !.vertex_len = len.value]
    IN  IF len.overflow /\ overflow_checks
        THEN Out(g, "panic", id, "none", FALSE)
        ELSE IF id \notin DOMAIN g.vertices
        THEN Out(g1, "VertexNotFound", id, "none", FALSE)
        ELSE remove_loop([g1 EXCEPT !.vertices = MapRemove(@, id),
                                    !.current_vertex_id = id],
                         id, g.vertices[id], seq, ub, FALSE)

\* Graph::remove; seq is the order in which the keys of the adjacency map were
\* collected
remove(g, id, seq, ub) ==
    LET len == usize_sub(g.vertex_len, 1)
        g1 == [g EXCEPT !.vertex_len = len.value]
    IN  IF len.overflow /\ overflow_checks
        THEN Out(g, "panic", id, "none", FALSE)
        ELSE IF id \notin DOMAIN g.vertices
        THEN Out(g1, "VertexNotFound", id, "none", FALSE)
        ELSE remove_loop([g1 EXCEPT !.vertices = MapRemove(@, id)], id, g.vertices[id],
                         seq, ub, FALSE)

\* Graph::remove_edge_between returning Ok(()) when the scan found no edge
remove_edge_between_ok_when_none(g, id_one, id_two, found) ==
    IF id_one \notin DOMAIN g.vertices
    THEN Out(g, "VertexNotFound", id_one, "none", FALSE)
    ELSE IF id_two \notin DOMAIN g.vertices
    THEN Out(g, "VertexNotFound", id_two, "none", FALSE)
    ELSE IF found = NoId
    THEN Out(g, "Ok", NoId, "none", FALSE)
    ELSE LET g1 == [g EXCEPT !.heap[g.vertices[id_one]].edges = MapRemove(@, found)]
             g2 == [g1 EXCEPT !.heap[g.vertices[id_two]].edges = MapRemove(@, found)]
         IN  IF found \notin DOMAIN g.edges
             THEN Out(g2, "panic", found, "none", FALSE)
             ELSE Out([g2 EXCEPT !.edges = MapRemove(@, found),
                                 !.heap = Shared_drop(g2.heap, g.edges[found])],
                      "Ok", NoId, "none", FALSE)

\* Graph::remove_edge_between without the removal from id_two's adjacency map
remove_edge_between_first_only(g, id_one, id_two, found) ==
    IF id_one \notin DOMAIN g.vertices
    THEN Out(g, "VertexNotFound", id_one, "none", FALSE)
    ELSE IF id_two \notin DOMAIN g.vertices
    THEN Out(g, "VertexNotFound", id_two, "none", FALSE)
    ELSE IF found = NoId
    THEN Out(g, "NoEdgeBetween", NoId, "none", FALSE)
    ELSE LET g1 == [g EXCEPT !.heap[g.vertices[id_one]].edges = MapRemove(@, found)]
         IN  IF found \notin DOMAIN g.edges
             THEN Out(g1, "panic", found, "none", FALSE)
             ELSE Out([g1 EXCEPT !.edges = MapRemove(@, found),
                                 !.heap = Shared_drop(g1.heap, g.edges[found])],
                      "Ok", NoId, "none", FALSE)

\* Graph::remove_edge_between; found is what the scan ended with
remove_edge_between(g, id_one, id_two, found) ==
    IF id_one \notin DOMAIN g.vertices
    THEN Out(g, "VertexNotFound", id_one, "none", FALSE)
    ELSE IF id_two \notin DOMAIN g.vertices
    THEN Out(g, "VertexNotFound", id_two, "none", FALSE)
    ELSE IF found = NoId
    THEN Out(g, "NoEdgeBetween", NoId, "none", FALSE)
    ELSE LET g1 == [g EXCEPT !.heap[g.vertices[id_one]].edges = MapRemove(@, found)]
             g2 == [g1 EXCEPT !.heap[g.vertices[id_two]].edges = MapRemove(@, found)]
         IN  IF found \notin DOMAIN g.edges
             THEN Out(g2, "panic", found, "none", FALSE)
             ELSE Out([g2 EXCEPT !.edges = MapRemove(@, found),
                                 !.heap = Shared_drop(g2.heap, g.edges[found])],
                      "Ok", NoId, "none", FALSE)

\* the scan for a key of id_one's adjacency map that id_two's contains: what it
\* can end with, in any iteration order of the hash map
Scan(g, id_one, id_two) ==
    IF id_one \notin DOMAIN g.vertices \/ id_two \notin DOMAIN g.vertices
    THEN {NoId}
    ELSE IF SharedKeys(g, id_one, id_two) = {} THEN {NoId}
    ELSE SharedKeys(g, id_one, id_two)

\* get_edge(id), borrow_mut, get_weight_mut: a write of the weight of the edge
\* that the edge registry holds under id
get_weight_mut(g, id, weight) == [g EXCEPT !.heap[g.edges[id]].weight = weight]

\* the weight callbacks a caller passes: one gives back its seed, one reads the
\* two nodes it is handed and tells whether the first has the lower id
WeightFns == {"seed", "first_is_lower"}

\* weight(item, first.ghost(), second.ghost(), self, token)
weight_fn(f, item, h, first, second) ==
    IF f = "seed" THEN item
    ELSE IF h[first].id < h[second].id THEN 1 ELSE 0

\* Graph::add_edge with its callback: first and second are looked up under
\* id_one and id_two, the callback is invoked on them once the validation has
\* passed, and what it returns is the weight of the edge
add_edge_calling(g, id_one, id_two, item, f) ==
    IF add_edge(g, id_one, id_two, 0).path = "none"
    THEN add_edge(g, id_one, id_two, 0)
    ELSE add_edge(g, id_one, id_two,
                  weight_fn(f, item, g.heap, g.vertices[id_one], g.vertices[id_two]))

\* Graph::create_or_update_edge_between from the callback on, the callback handed
\* the node of id_two before the node of id_one
create_or_update_edge_between_calling_swapped(g, id_one, id_two, item, f, found) ==
    IF create_or_update_edge_between(g, id_one, id_two, 0, found).path = "none"
    THEN create_or_update_edge_between(g, id_one, id_two, 0, found)
    ELSE create_or_update_edge_between(
             g, id_one, id_two,
             weight_fn(f, item, g.heap, g.vertices[id_two], g.vertices[id_one]), found)

\* Graph::create_or_update_edge_between with its callback: invoked after the scan
\* on the nodes of id_one and id_two, on the update and on the create path
create_or_update_edge_between_calling(g, id_one, id_two, item, f, found) ==
    IF create_or_update_edge_between(g, id_one, id_two, 0, found).path = "none"
    THEN create_or_update_edge_between(g, id_one, id_two, 0, found)
    ELSE create_or_update_edge_between(
             g, id_one, id_two,
             weight_fn(f, item, g.heap, g.vertices[id_one], g.vertices[id_two]), found)

\* -------------------------------------------------------------- actions
Init ==
    /\ vertices = Graph_new.vertices
    /\ edges = Graph_new.edges
    /\ heap = Graph_new.heap
    /\ current_vertex_id = Graph_new.current_vertex_id
    /\ current_edge_id = Graph_new.current_edge_id
    /\ vertex_len = Graph_new.vertex_len
    /\ edge_len = Graph_new.edge_len
    /\ overflow_checks \in BOOLEAN
    /\ returned = [vertex |-> {}, edge |-> {}, adds |-> 0]
    /\ tokens = << >>
    /\ cells = << >>
    /\ borrows = {}
    /\ last = [op |-> "new", ret |-> "Ok", path |-> "none", uaf |-> FALSE]

\* the call of op ended as out says
Apply(op, out) ==
    /\ vertices' = out.g.vertices
    /\ edges' = out.g.edges
    /\ heap' = out.g.heap
    /\ current_vertex_id' = out.g.current_vertex_id
    /\ current_edge_id' = out.g.current_edge_id
    /\ vertex_len' = out.g.vertex_len
    /\ edge_len' = out.g.edge_len
    /\ last' = [op |-> op, ret |-> out.ret, path |-> out.path, uaf |-> out.uaf]
    /\ returned' =
           IF op = "add_vertex" /\ out.ret = "Ok"
           THEN [returned EXCEPT !.vertex = @ \cup {out.val},
                                 !.adds = IF @ = NoId THEN NoId ELSE @ + 1]
           ELSE IF op \in {"add_edge", "create_or_update_edge_between"} /\ out.ret = "Ok"
           THEN [returned EXCEPT !.edge = @ \cup {out.val}, !.adds = NoId]
           ELSE [returned EXCEPT !.adds = NoId]
    /\ UNCHANGED overflow_checks
    /\ UNCHANGED ghost_vars

Allocated == Cardinality(DOMAIN heap)

AddVertex ==
    /\ current_vertex_id < MaxVertexId
    /\ Allocated < MaxAlloc
    /\ Apply("add_vertex", add_vertex(Self))

AddEdge(id_one, id_two, weight) ==
    /\ current_edge_id < MaxEdgeId
    /\ Allocated < MaxAlloc
    /\ add_edge(Self, id_one, id_two, 0).path = "none" => weight = 0
    /\ Apply("add_edge", add_edge(Self, id_one, id_two, weight))

CreateOrUpdateEdgeBetween(id_one, id_two, weight) ==
    \E found \in Scan(Self, id_one, id_two) :
        LET out == create_or_update_edge_between(Self, id_one, id_two, weight, found)
        IN  /\ out.path = "create" => current_edge_id < MaxEdgeId /\ Allocated < MaxAlloc
            /\ out.path = "none" => weight = 0
            /\ Apply("create_or_update_edge_between", out)

\* how far vertex_len is below the size of the vertex registry
Skew == usize_sub(Cardinality(DOMAIN vertices), vertex_len).value

\* a handle kept in the adjacency map of a vertex of the registry leads to a
\* destroyed cell
Dangling(g) ==
    \E v \in DOMAIN g.vertices :
        \E e \in Keys(g, g.vertices[v]) : ~g.heap[g.heap[g.vertices[v]].edges[e]].live

Remove(id) ==
    /\ id \in DOMAIN vertices \/ Skew < MaxSkew
    /\ \E ub \in (IF Dangling(Self) THEN UB(heap) ELSE {NoUB}) :
         \E seq \in (IF id \in DOMAIN vertices
                     THEN KeyOrders(Keys(Self, vertices[id])) ELSE {<< >>}) :
             Apply("remove", remove(Self, id, seq, ub))

RemoveEdgeBetween(id_one, id_two) ==
    \E found \in Scan(Self, id_one, id_two) :
        Apply("remove_edge_between",
              remove_edge_between(Self, id_one, id_two, found))

Clear ==
    /\ Apply("clear", Out(clear(Self), "Ok", NoId, "none", FALSE))

GetWeightMut(id, weight) ==
    /\ id \in DOMAIN edges
    /\ Apply("get_weight_mut",
             Out(get_weight_mut(Self, id, weight), "Ok", id, "none", FALSE))

Next ==
    \/ AddVertex
    \/ \E id_one, id_two \in VertexIds, weight \in Weights : AddEdge(id_one, id_two, weight)
    \/ \E id_one, id_two \in VertexIds, weight \in Weights :
           CreateOrUpdateEdgeBetween(id_one, id_two, weight)
    \/ \E id \in VertexIds : Remove(id)
    \/ \E id_one, id_two \in VertexIds : RemoveEdgeBetween(id_one, id_two)
    \/ Clear
    \/ \E id \in EdgeIds, weight \in Weights : GetWeightMut(id, weight)

Spec == Init /\ [][Next]_vars

\* every operation but clear, which resets the id counters
NextNoClear ==
    \/ AddVertex
    \/ \E id_one, id_two \in VertexIds, weight \in Weights : AddEdge(id_one, id_two, weight)
    \/ \E id_one, id_two \in VertexIds, weight \in Weights :
           CreateOrUpdateEdgeBetween(id_one, id_two, weight)
    \/ \E id \in VertexIds : Remove(id)
    \/ \E id_one, id_two \in VertexIds : RemoveEdgeBetween(id_one, id_two)
    \/ \E id \in EdgeIds, weight \in Weights : GetWeightMut(id, weight)

SpecNoClear == Init /\ [][NextNoClear]_vars

\* ------------------------------------------- an edge variant that refuses
\* EdgeTrait::add_edge returns Result<(), Self::Error>.  The variants of the crate
\* never fail (Error = Infallible); a variant of the caller's can refuse, for
\* instance on a capacity limit, with nothing linked.

\* Graph::add_edge with a variant whose add_edge, once reached, returns
\* Err(error): the id is taken, the callback has run, map_err wraps the error and
\* ? returns it before edge_len += 1
add_edge_refused(g, id_one, id_two, weight, error) ==
    LET out == add_edge(g, id_one, id_two, weight)
    IN  IF out.path # "create" THEN out
        ELSE Out([g EXCEPT !.current_edge_id = @ + 1],
                 "AddEdgeError", error, "create", FALSE)

\* Graph::create_or_update_edge_between, had it counted the edge before the
\* variant's add_edge ended
create_or_update_edge_between_refused_counted(g, id_one, id_two, weight, found, error) ==
    LET out == create_or_update_edge_between(g, id_one, id_two, weight, found)
    IN  IF out.path # "create" THEN out
        ELSE Out([g EXCEPT !.current_edge_id = @ + 1,
                           !.edge_len = usize_add(@, 1).value],
                 "AddEdgeError", error, "create", FALSE)

\* Graph::create_or_update_edge_between with such a variant: on the create path
\* the id is taken, then the error is wrapped and returned before edge_len += 1
create_or_update_edge_between_refused(g, id_one, id_two, weight, found, error) ==
    LET out == create_or_update_edge_between(g, id_one, id_two, weight, found)
    IN  IF out.path # "create" THEN out
        ELSE Out([g EXCEPT !.current_edge_id = @ + 1],
                 "AddEdgeError", error, "create", FALSE)

AddEdgeRefused(id_one, id_two, weight, error) ==
    /\ current_edge_id < MaxEdgeId
    /\ add_edge(Self, id_one, id_two, 0).path = "none" => weight = 0 /\ error = 0
    /\ Apply("add_edge", add_edge_refused(Self, id_one, id_two, weight, error))

\* a call of create_or_update_edge_between that reaches the variant's add_edge
CreateOrUpdateEdgeBetweenRefused(id_one, id_two, weight, error) ==
    \E found \in Scan(Self, id_one, id_two) :
        LET out == create_or_update_edge_between_refused(
                       Self, id_one, id_two, weight, found, error)
        IN  /\ out.path = "create"
            /\ current_edge_id < MaxEdgeId
            /\ Apply("create_or_update_edge_between", out)

\* the operations on a graph whose edge variant refuses some of the time
NextRefusing ==
    \/ Next
    \/ \E id_one, id_two \in VertexIds, weight \in Weights, error \in EdgeErrors :
           AddEdgeRefused(id_one, id_two, weight, error)
    \/ \E id_one, id_two \in VertexIds, weight \in Weights, error \in EdgeErrors :
           CreateOrUpdateEdgeBetweenRefused(id_one, id_two, weight, error)

SpecRefusing == Init /\ [][NextRefusing]_vars

\* ---------------------------------------------------- Shared::convert
\* (src/src/shared.rs)  A payload with drop glue owns a resource (a Box, a Vec, a
\* hash map) that its destructor frees; the resource is a cell of the heap, and
\* the payload is the handle of it.  0 is a payload without drop glue.

Resource == [kind |-> "Resource", live |-> TRUE, drops |-> 0]

\* the GhostCell that Shared::new(item) allocates
Item_new(item) == [kind |-> "Item", live |-> TRUE, drops |-> 0, item |-> item]

\* the destructor of a payload
drop_payload(h, item) == IF item = 0 THEN h ELSE Shared_drop(h, item)

\* Shared::drop on a cell with a payload: drop_in_place runs the destructor of
\* the payload where it lies, then the cell is deallocated
Shared_drop_item(h, ptr) == Shared_drop(drop_payload(h, h[ptr].item), ptr)

\* U::from(T): U wraps the payload, or U is computed from it and the payload is
\* dropped at the end of from
Conversions == {"wrap", "consume"}

\* Shared::convert: read() copies the cell out bit by bit, self.drop() runs on
\* the source, into_inner and into work on the copy, Shared::new allocates
Shared_convert(h, ptr, from) ==
    LET inner == h[ptr].item
        h1 == Shared_drop_item(h, ptr)
        uaf == inner # 0 /\ ~h1[inner].live
        h2 == IF from = "consume" THEN drop_payload(h1, inner) ELSE h1
        converted_inner == IF from = "consume" THEN 0 ELSE inner
    IN  [h |-> Shared_new(h2, Item_new(converted_inner)), ptr |-> NewPtr(h2), uaf |-> uaf]

\* the live cells that hold a payload
Items(h) == {p \in DOMAIN h : h[p].kind = "Item" /\ h[p].live}

\* Shared::new(item), the item owning a resource or not
SharedNew(owning) ==
    /\ Allocated + 2 <= MaxShared
    /\ LET h1 == IF owning THEN Shared_new(heap, Resource) ELSE heap
           item == IF owning THEN NewPtr(heap) ELSE 0
       IN  Apply("new", Out([Self EXCEPT !.heap = Shared_new(h1, Item_new(item))],
                            "Ok", NewPtr(h1), "none", FALSE))

SharedConvert(ptr, from) ==
    /\ Allocated < MaxShared
    /\ ptr \in Items(heap)
    /\ LET r == Shared_convert(heap, ptr, from)
       IN  Apply("convert", Out([Self EXCEPT !.heap = r.h], "Ok", r.ptr, "none", r.uaf))

SharedDrop(ptr) ==
    /\ ptr \in Items(heap)
    /\ Apply("drop", Out([Self EXCEPT !.heap = Shared_drop_item(heap, ptr)],
                         "Ok", ptr, "none", FALSE))

NextShared ==
    \/ \E owning \in BOOLEAN : SharedNew(owning)
    \/ \E ptr \in 1..MaxShared, from \in Conversions : SharedConvert(ptr, from)
    \/ \E ptr \in 1..MaxShared : SharedDrop(ptr)

SpecShared == Init /\ [][NextShared]_vars

\* ------------------------------------------------ GhostToken and GhostCell
\* (src/src/ghost.rs)  A brand stands for the lifetime 'id.  The references to a
\* token follow the borrow rules of the language: any number of shared
\* references, or one exclusive reference and no other.

\* #[derive(Default)] on the public GhostToken: GhostToken::default() is a
\* public constructor, and the brand of its result is the caller's choice
GhostToken_default(ts, brand) == Append(ts, [brand |-> brand, by |-> "default"])

\* GhostToken::new: the token it passes to the closure is GhostToken::default();
\* 'new_id is a generic parameter of new, so the brand is the caller's choice
GhostToken_new(ts, brand) ==
    [GhostToken_default(ts, brand) EXCEPT ![Len(ts) + 1].by = "new"]

\* GhostCell::new
GhostCell_new(cs, brand) == Append(cs, brand)

\* &'a GhostToken<'id> can be taken: no exclusive reference to the token is alive
CanShare(bs, token) == \A b \in bs : b.token = token => b.kind = "read"

\* &'a mut GhostToken<'id> can be taken: no reference to the token is alive
CanExclusive(bs, token) == \A b \in bs : b.token # token

\* GhostCell::g_borrow (Shared::borrow delegates to it)
g_borrow(bs, cell, token) == bs \cup {[token |-> token, cell |-> cell, kind |-> "read"]}

\* GhostCell::g_borrow_mut (Shared::borrow_mut delegates to it)
g_borrow_mut(bs, cell, token) == bs \cup {[token |-> token, cell |-> cell, kind |-> "write"]}

\* every reference that can be handed out
Borrows == [token : 1..MaxTokens, cell : 1..MaxCells, kind : {"read", "write"}]

GhostTokenNew(brand) ==
    /\ Len(tokens) < MaxTokens
    /\ tokens' = GhostToken_new(tokens, brand)
    /\ UNCHANGED <<cells, borrows, graph_vars>>

GhostTokenDefault(brand) ==
    /\ Len(tokens) < MaxTokens
    /\ tokens' = GhostToken_default(tokens, brand)
    /\ UNCHANGED <<cells, borrows, graph_vars>>

GhostCellNew(brand) ==
    /\ Len(cells) < MaxCells
    /\ cells' = GhostCell_new(cells, brand)
    /\ UNCHANGED <<tokens, borrows, graph_vars>>

\* the call type checks when the cell and the token have one brand
GBorrow(cell, token) ==
    /\ cell \in DOMAIN cells
    /\ token \in DOMAIN tokens
    /\ cells[cell] = tokens[token].brand
    /\ CanShare(borrows, token)
    /\ borrows' = g_borrow(borrows, cell, token)
    /\ borrows' # borrows
    /\ UNCHANGED <<tokens, cells, graph_vars>>

GBorrowMut(cell, token) ==
    /\ cell \in DOMAIN cells
    /\ token \in DOMAIN tokens
    /\ cells[cell] = tokens[token].brand
    /\ CanExclusive(borrows, token)
    /\ borrows' = g_borrow_mut(borrows, cell, token)
    /\ UNCHANGED <<tokens, cells, graph_vars>>

\* the lifetime 'a of a returned reference ends
EndBorrow(b) ==
    /\ b \in borrows
    /\ borrows' = borrows \ {b}
    /\ UNCHANGED <<tokens, cells, graph_vars>>

NextGhost ==
    \/ \E brand \in Brands : GhostTokenNew(brand)
    \/ \E brand \in Brands : GhostTokenDefault(brand)
    \/ \E brand \in Brands : GhostCellNew(brand)
    \/ \E cell \in 1..MaxCells, token \in 1..MaxTokens : GBorrow(cell, token)
    \/ \E cell \in 1..MaxCells, token \in 1..MaxTokens : GBorrowMut(cell, token)
    \/ \E b \in Borrows : EndBorrow(b)

SpecGhost == Init /\ [][NextGhost]_vars

\* ------------------------------------------- the UnDirectedWeightedEdge variant
\* UnDirectedWeightedEdge (src/src/edge/undirected_weighted.rs) belongs to the
\* Graph of src/src/lib.rs, whose add_edge calls it with the arguments it takes.
\* Its adjacency maps (src/src/vertex.rs) hold the edges themselves, not handles.

\* UnDirectedWeightedEdge(weight, first, second)
UnDirectedWeightedEdge(weight, first, second) ==
    [weight |-> weight, first |-> first, second |-> second]

\* Clone for UnDirectedWeightedEdge: the weight is cloned, the handles copied
UnDirected_clone(edge) == UnDirectedWeightedEdge(edge.weight, edge.first, edge.second)

\* UnDirectedWeightedEdge::add_edge
UnDirected_add_edge(g, weight, first, second, id) ==
    LET edge == UnDirectedWeightedEdge(weight, first, second)
        h1 == [g.heap EXCEPT ![first].edges = MapInsert(@, id, UnDirected_clone(edge))]
        h2 == [h1 EXCEPT ![second].edges = MapInsert(@, id, edge)]
    IN  [g EXCEPT !.heap = h2]

\* Graph::add_edge of lib.rs
lib_add_edge(g, id_one, id_two, weight) ==
    LET id == g.current_edge_id
        g1 == [g EXCEPT !.current_edge_id = @ + 1]
    IN  IF id_one = id_two
        THEN Out(g1, "IdenticalVertex", id_one, "none", FALSE)
        ELSE IF id_one \notin DOMAIN g1.vertices
        THEN Out(g1, "VertexNotFound", id_one, "none", FALSE)
        ELSE IF id_two \notin DOMAIN g1.vertices
        THEN Out(g1, "VertexNotFound", id_two, "none", FALSE)
        ELSE Out(UnDirected_add_edge(g1, weight, g1.vertices[id_one], g1.vertices[id_two], id),
                 "Ok", id, "create", FALSE)

\* Graph::clear of lib.rs
lib_clear(g) ==
    [g EXCEPT !.heap = drain(g.heap, Range(g.vertices)), !.vertices = EmptyMap,
              !.current_vertex_id = 0, !.current_edge_id = 0, !.vertex_len = 0]

\* get(id), borrow_mut, iter_mut: a write of the weight of the entry that the
\* adjacency map of vertex id holds under e_id
iter_mut_weight(g, id, e_id, weight) ==
    [g EXCEPT !.heap[g.vertices[id]].edges[e_id].weight = weight]

LibAddEdge(id_one, id_two, weight) ==
    /\ current_edge_id < MaxEdgeId
    /\ lib_add_edge(Self, id_one, id_two, 0).path = "none" => weight = 0
    /\ Apply("add_edge", lib_add_edge(Self, id_one, id_two, weight))

LibClear ==
    /\ Apply("clear", Out(lib_clear(Self), "Ok", NoId, "none", FALSE))

IterMutWeight(id, e_id, weight) ==
    /\ id \in DOMAIN vertices
    /\ e_id \in DOMAIN Adj(Self, id)
    /\ Apply("iter_mut", Out(iter_mut_weight(Self, id, e_id, weight), "Ok", e_id, "none", FALSE))

NextUnDirected ==
    \/ AddVertex
    \/ \E id_one, id_two \in VertexIds, weight \in Weights :
           LibAddEdge(id_one, id_two, weight)
    \/ \E id \in VertexIds, e_id \in EdgeIds, weight \in Weights :
           IterMutWeight(id, e_id, weight)
    \/ LibClear

SpecUnDirected == Init /\ [][NextUnDirected]_vars

\* ------------------------------------------------------------ properties
\* every way a call of an edge creating operation with these arguments can end
EdgeCreatingCalls(id_one, id_two, weight) ==
    {add_edge(Self, id_one, id_two, weight)} \cup
    {create_or_update_edge_between(Self, id_one, id_two, weight, found) :
        found \in Scan(Self, id_one, id_two)}

\* every way remove(id) can end, id being in the registry
RemoveCalls(id) ==
    {remove(Self, id, seq, ub) :
        seq \in KeyOrders(Keys(Self, vertices[id])),
        ub \in (IF Dangling(Self) THEN UB(heap) ELSE {NoUB})}

\* C1: every edge id in the adjacency map of a vertex of the registry is in the
\* edge registry and is in the adjacency maps of exactly two vertices of the
\* registry, never of one alone.
C1_AdjacencyIntegrity ==
    \A v \in DOMAIN vertices :
        \A e \in DOMAIN Adj(Self, v) :
            /\ e \in DOMAIN edges
            /\ Cardinality({u \in DOMAIN vertices : e \in DOMAIN Adj(Self, u)}) = 2

\* C2: for two ids of the registry adjacent answers Ok(true) when the two
\* adjacency maps share a key and Ok(false) when they share none; it answers
\* VertexNotFound only when one of the two ids is absent.
C2_AdjacentAnswers ==
    \A a, b \in VertexIds :
        LET r == adjacent(Self, a, b)
        IN  /\ (a \in DOMAIN vertices /\ b \in DOMAIN vertices) =>
                   /\ r.ret = "Ok"
                   /\ r.val = (SharedKeys(Self, a, b) # {})
            /\ r.ret = "VertexNotFound" =>
                   (a \notin DOMAIN vertices \/ b \notin DOMAIN vertices)

\* C3: add_edge(a, b) with a # b, both in the registry and no edge between them
\* returns Ok(id), id being an edge id that no earlier successful call returned.
C3_AddEdgeSucceeds ==
    \A a, b \in DOMAIN vertices :
        \A w \in Weights :
            (a # b /\ SharedKeys(Self, a, b) = {}) =>
                /\ add_edge(Self, a, b, w).ret = "Ok"
                /\ add_edge(Self, a, b, w).val \notin returned.edge

\* C4: whenever add_edge(a, b) or the create path of
\* create_or_update_edge_between(a, b) returns Ok(id), afterwards adjacent(a, b)
\* and adjacent(b, a) are true, the adjacency maps of a and of b have each grown
\* by exactly one entry, get_edge(id) is present and edge_len has grown by one.
C4_CreatedEdgeIsLinked ==
    \A a, b \in VertexIds :
        \A w \in Weights :
            \A out \in EdgeCreatingCalls(a, b, w) :
                (out.ret = "Ok" /\ out.path = "create") =>
                    /\ adjacent(out.g, a, b).ret = "Ok" /\ adjacent(out.g, a, b).val
                    /\ adjacent(out.g, b, a).ret = "Ok" /\ adjacent(out.g, b, a).val
                    /\ Size(out.g, a) = Size(Self, a) + 1
                    /\ Size(out.g, b) = Size(Self, b) + 1
                    /\ out.val \in DOMAIN out.g.edges
                    /\ out.g.edge_len = edge_len + 1

\* an edge creating call has just created an edge, which is linked as C4 says
C4_Witness ==
    /\ last.op = "create_or_update_edge_between"
    /\ last.ret = "Ok"
    /\ last.path = "create"
    /\ \E a, b \in DOMAIN vertices :
           /\ a # b
           /\ SharedKeys(Self, a, b) # {}
           /\ edge_len = 1

\* the weight read through the entry that the adjacency map of v holds under e,
\* the map holding the edges themselves (UnDirectedWeightedEdge)
EntryWeight(g, v, e) == Adj(g, v)[e].weight

\* C5: the weight read through the entry for edge e in the adjacency map of one
\* endpoint is the weight read through the entry for e in the adjacency map of
\* the other endpoint, also after a write of the weight through one entry.
C5_OneWeightThroughBothEntries ==
    \A u, v \in DOMAIN vertices :
        \A e \in DOMAIN Adj(Self, u) \cap DOMAIN Adj(Self, v) :
            EntryWeight(Self, u, e) = EntryWeight(Self, v, e)

\* the DirectedWeightedEdge variant under Spec: the two entries are one handle,
\* so one weight is read through both
OneHandleInBothEntries ==
    \A u, v \in DOMAIN vertices :
        \A e \in DOMAIN Adj(Self, u) \cap DOMAIN Adj(Self, v) :
            Adj(Self, u)[e] = Adj(Self, v)[e]

\* C6: no handle that the graph keeps (in the vertex registry, in the edge
\* registry, in the adjacency map of a vertex of the registry, as an endpoint of
\* an edge of the registry) leads to a destroyed allocation, and no operation
\* dereferences a handle to a destroyed allocation.
C6_NoDestroyedHandle ==
    /\ \A v \in DOMAIN vertices : heap[vertices[v]].live
    /\ \A e \in DOMAIN edges : heap[edges[e]].live
    /\ \A v \in DOMAIN vertices :
           \A e \in DOMAIN Adj(Self, v) : heap[Adj(Self, v)[e]].live
    /\ \A e \in DOMAIN edges :
           heap[heap[edges[e]].first].live /\ heap[heap[edges[e]].second].live
    /\ ~last.uaf

\* C7: after clear every allocation the graph ever made has been destroyed
\* exactly once, and a second clear destroys nothing and leaves the graph empty.
C7_ClearDestroysEachOnce ==
    last.op = "clear" =>
        /\ \A p \in DOMAIN heap : ~heap[p].live /\ heap[p].drops = 1
        /\ clear(Self) = Self
        /\ DOMAIN vertices = {} /\ DOMAIN edges = {}

\* C8: vertex_len is the number of entries of the vertex registry.
C8_VertexLenIsRegistrySize == vertex_len = Cardinality(DOMAIN vertices)

\* C9: edge_len is the number of entries of the edge registry.
C9_EdgeLenIsRegistrySize == edge_len = Cardinality(DOMAIN edges)

\* C10: remove(v) with v in the registry returns Ok, takes one from vertex_len,
\* takes v out of the registry, takes every edge incident to v out of the edge
\* registry, and takes from the adjacency map of every other vertex u exactly
\* the edges that connected u and v.
C10_RemoveTakesVertexAndEdges ==
    \A v \in DOMAIN vertices :
        \A out \in RemoveCalls(v) :
            /\ out.ret = "Ok"
            /\ out.g.vertex_len = vertex_len - 1
            /\ v \notin DOMAIN out.g.vertices
            /\ \A e \in DOMAIN Adj(Self, v) : e \notin DOMAIN out.g.edges
            /\ \A u \in DOMAIN vertices \ {v} :
                   /\ u \in DOMAIN out.g.vertices
                   /\ Size(out.g, u) = Size(Self, u) - Cardinality(SharedKeys(Self, u, v))

\* what the claims compare before and after a call: the two registries, the two
\* counts and, through the heap, every adjacency map and every edge
Observed(g) ==
    [vertices |-> g.vertices, edges |-> g.edges, heap |-> g.heap,
     vertex_len |-> g.vertex_len, edge_len |-> g.edge_len]

\* C11: remove(v) with v absent from the registry returns VertexNotFound(v) and
\* leaves the vertex registry, vertex_len, the edge registry, edge_len and every
\* adjacency map as they were.
C11_RemoveAbsentChangesNothing ==
    \A v \in VertexIds \ DOMAIN vertices :
        LET out == remove(Self, v, << >>, NoUB)
        IN  /\ out.ret = "VertexNotFound"
            /\ out.val = v
            /\ Observed(out.g) = Observed(Self)

\* C12: add_edge(a, a) returns IdenticalVertex(a), whether or not a is in the
\* registry, and leaves vertex_len, edge_len, the two registries and every
\* adjacency map as they were.
C12_AddEdgeIdenticalVertex ==
    \A a \in VertexIds :
        \A w \in Weights :
            LET out == add_edge(Self, a, a, w)
            IN  /\ out.ret = "IdenticalVertex"
                /\ out.val = a
                /\ Observed(out.g) = Observed(Self)

\* add_edge has just returned IdenticalVertex on a graph that holds an edge
C12_Witness ==
    /\ last.op = "add_edge"
    /\ last.ret = "IdenticalVertex"
    /\ DOMAIN edges # {}

\* C13: add_edge(a, b) with a in the registry and b absent returns
\* VertexNotFound(b), with a absent it returns VertexNotFound(a), and both times
\* every adjacency map, the two registries and edge_len are as they were.
C13_AddEdgeVertexNotFound ==
    \A a, b \in VertexIds :
        \A w \in Weights :
            LET out == add_edge(Self, a, b, w)
            IN  (a # b /\ (a \notin DOMAIN vertices \/ b \notin DOMAIN vertices)) =>
                    /\ out.ret = "VertexNotFound"
                    /\ out.val = (IF a \notin DOMAIN vertices THEN a ELSE b)
                    /\ Observed(out.g) = Observed(Self)

\* add_edge has just returned VertexNotFound on a graph that holds an edge, with
\* the two present vertices adjacent: one of the two ids was absent
C13_Witness ==
    /\ last.op = "add_edge"
    /\ last.ret = "VertexNotFound"
    /\ DOMAIN edges # {}
    /\ \A u, v \in DOMAIN vertices : u # v => SharedKeys(Self, u, v) # {}

\* C14: add_edge(a, b) while an edge is between a and b returns
\* AlreadyEdgeBetween and creates nothing: the adjacency maps of a and b, the
\* edge registry and edge_len are as they were.
C14_AddEdgeAlreadyEdgeBetween ==
    \A a, b \in DOMAIN vertices :
        \A w \in Weights :
            LET out == add_edge(Self, a, b, w)
            IN  (a # b /\ SharedKeys(Self, a, b) # {}) =>
                    /\ out.ret = "AlreadyEdgeBetween"
                    /\ Size(out.g, a) = Size(Self, a)
                    /\ Size(out.g, b) = Size(Self, b)
                    /\ Observed(out.g) = Observed(Self)

\* add_edge has just returned AlreadyEdgeBetween
C14_Witness ==
    /\ last.op = "add_edge"
    /\ last.ret = "AlreadyEdgeBetween"
    /\ edge_len = 1

\* how often a call invoked the weight callback: once on the update and on the
\* create path, never on a path that returns before it
weight_fn_calls(out) == IF out.path = "none" THEN 0 ELSE 1

\* the weight read through the entry that the adjacency map of v holds under e,
\* the entry being a handle; NoId stands for a read of a destroyed edge
WeightThrough(g, v, e) ==
    IF g.heap[Adj(g, v)[e]].live THEN g.heap[Adj(g, v)[e]].weight ELSE NoId

\* C15: create_or_update_edge_between(a, b) while edge e is between the distinct
\* vertices a and b of the registry invokes the weight callback once, returns
\* Ok(e), creates no edge (adjacency map sizes, edge registry, edge_len and the
\* edge id counter are as they were, and nothing is allocated), and afterwards
\* the weight read through the entry of a and through the entry of b for e is
\* what the callback returned.
C15_UpdateWritesOneSharedWeight ==
    \A a, b \in DOMAIN vertices :
        \A w \in Weights :
            (a # b /\ SharedKeys(Self, a, b) # {}) =>
                \A found \in Scan(Self, a, b) :
                    LET out == create_or_update_edge_between(Self, a, b, w, found)
                    IN  /\ weight_fn_calls(out) = 1
                        /\ out.ret = "Ok"
                        /\ out.val = found
                        /\ found \in SharedKeys(Self, a, b)
                        /\ Size(out.g, a) = Size(Self, a)
                        /\ Size(out.g, b) = Size(Self, b)
                        /\ out.g.edges = edges
                        /\ out.g.edge_len = edge_len
                        /\ out.g.current_edge_id = current_edge_id
                        /\ DOMAIN out.g.heap = DOMAIN heap
                        /\ WeightThrough(out.g, a, found) = w
                        /\ WeightThrough(out.g, b, found) = w

\* create_or_update_edge_between has just taken its update path
C15_Witness ==
    /\ last.op = "create_or_update_edge_between"
    /\ last.ret = "Ok"
    /\ last.path = "update"
    /\ ~last.uaf
    /\ DOMAIN edges # {}

\* C16: remove_edge_between(a, b) for distinct vertices a and b of the registry
\* that share no edge returns NoEdgeBetween and changes nothing: the two
\* registries, the two counts and every adjacency map are as they were.
C16_RemoveEdgeBetweenNoEdge ==
    \A a, b \in DOMAIN vertices :
        (a # b /\ SharedKeys(Self, a, b) = {}) =>
            \A found \in Scan(Self, a, b) :
                LET out == remove_edge_between(Self, a, b, found)
                IN  /\ out.ret = "NoEdgeBetween"
                    /\ Observed(out.g) = Observed(Self)

\* remove_edge_between has just returned NoEdgeBetween on a graph with an edge
C16_Witness ==
    /\ last.op = "remove_edge_between"
    /\ last.ret = "NoEdgeBetween"
    /\ DOMAIN edges # {}

\* the cells of kind k that have been destroyed
Destroyed(h, k) == {p \in DOMAIN h : h[p].kind = k /\ ~h[p].live}

\* C17: remove_edge_between(a, b) for distinct vertices a and b of the registry
\* connected by edge e returns Ok, takes e out of the adjacency maps of a and b
\* and out of the edge registry, destroys the allocation of e exactly once, and
\* leaves every other adjacency entry and every other edge as it was.
C17_RemoveEdgeBetweenRemovesEdge ==
    \A a, b \in DOMAIN vertices :
        (a # b /\ SharedKeys(Self, a, b) # {}) =>
            \A e \in Scan(Self, a, b) :
                LET out == remove_edge_between(Self, a, b, e)
                    ptr == Adj(Self, a)[e]
                IN  /\ out.ret = "Ok"
                    /\ Adj(out.g, a) = MapRemove(Adj(Self, a), e)
                    /\ Adj(out.g, b) = MapRemove(Adj(Self, b), e)
                    /\ e \in DOMAIN edges
                    /\ out.g.edges = MapRemove(edges, e)
                    /\ heap[ptr].live
                    /\ ~out.g.heap[ptr].live
                    /\ out.g.heap[ptr].drops = 1
                    /\ out.g.vertices = vertices
                    /\ DOMAIN out.g.heap = DOMAIN heap
                    /\ \A p \in DOMAIN heap \ {ptr, vertices[a], vertices[b]} :
                           out.g.heap[p] = heap[p]

\* remove_edge_between has just removed the one edge ever made, between two
\* distinct vertices: no vertex was ever removed and no entry is left behind
C17_Witness ==
    /\ last.op = "remove_edge_between"
    /\ last.ret = "Ok"
    /\ Cardinality(Destroyed(heap, "Edge")) = 1
    /\ Destroyed(heap, "Vertex") = {}
    /\ \A v \in DOMAIN vertices : Size(Self, v) = 0

\* Graph::is_empty
is_empty(g) == g.vertex_len = 0

\* Graph::get_vertex and Graph::get_edge: the handle, 0 standing for None
get_vertex(g, id) == IF id \in DOMAIN g.vertices THEN g.vertices[id] ELSE 0

get_edge(g, id) == IF id \in DOMAIN g.edges THEN g.edges[id] ELSE 0

\* C18: after clear vertex_len and edge_len are 0, is_empty is true, and
\* get_vertex and get_edge give none for every vertex id and every edge id that
\* was in a registry before the call.
C18_ClearEmptiesTheGraph ==
    LET g == clear(Self)
    IN  /\ g.vertex_len = 0
        /\ g.edge_len = 0
        /\ is_empty(g)
        /\ \A id \in DOMAIN vertices : get_vertex(g, id) = 0
        /\ \A id \in DOMAIN edges : get_edge(g, id) = 0

\* clear has just emptied a graph that held vertices and edges
C18_Witness ==
    /\ last.op = "clear"
    /\ Destroyed(heap, "Edge") # {}
    /\ Destroyed(heap, "Vertex") # {}
    /\ vertex_len = 0
    /\ edge_len = 0

\* C19: on a new graph, whatever the number of add_vertex calls, the k-th call
\* returns id k - 1, so the ids returned are 0, 1, 2, ... in this order, and
\* after n calls vertex_len is n.
C19_AddVertexCountsFromZero ==
    returned.adds # NoId =>
        /\ returned.vertex = 0..(returned.adds - 1)
        /\ vertex_len = returned.adds
        /\ add_vertex(Self).ret = "Ok"
        /\ add_vertex(Self).val = returned.adds
        /\ add_vertex(Self).g.vertex_len = returned.adds + 1

\* three add_vertex calls, and no other call, were made on a new graph
C19_Witness ==
    /\ returned.adds = 3
    /\ last.op = "add_vertex"
    /\ DOMAIN vertices = {0, 1, 2}

\* C20: in any interleaving of add_vertex and remove that succeeds or fails,
\* add_vertex returns an id that no earlier add_vertex returned, remove leaves
\* the next id as it was, and get_vertex of a removed id stays none.
C20_VertexIdsNeverReused ==
    [][/\ (last'.op = "add_vertex" /\ last'.ret = "Ok") =>
              /\ returned'.vertex # returned.vertex
              /\ (DOMAIN vertices' \ DOMAIN vertices) \cap returned.vertex = {}
       /\ last'.op = "remove" => current_vertex_id' = current_vertex_id
       /\ \A id \in returned.vertex \ DOMAIN vertices : id \notin DOMAIN vertices'
      ]_vars

\* add_vertex has just returned an id after a vertex was removed
C20_Witness ==
    /\ last.op = "add_vertex"
    /\ last.ret = "Ok"
    /\ returned.vertex \ DOMAIN vertices # {}
    /\ Destroyed(heap, "Vertex") # {}

\* C21: on one graph add_vertex never returns an id that add_vertex returned
\* before, also when clear was called in between.
C21_VertexIdsUniqueAcrossClear ==
    add_vertex(Self).ret = "Ok" => add_vertex(Self).val \notin returned.vertex

\* C22: on a failed call the edge id counter behaves alike in add_edge and in
\* create_or_update_edge_between: both advance it or both leave it as it was.
C22_FailedCallsTreatCounterAlike ==
    \A a, b \in VertexIds :
        \A w \in Weights :
            \A found \in Scan(Self, a, b) :
                LET one == add_edge(Self, a, b, w)
                    two == create_or_update_edge_between(Self, a, b, w, found)
                IN  (one.ret # "Ok" /\ two.ret # "Ok") =>
                        one.g.current_edge_id = two.g.current_edge_id

\* C23: every call of add_edge advances the edge id counter by one, also a call
\* that returns an error, so that the id a failed call took is issued by no
\* later edge creating call.
C23_AddEdgeAlwaysAdvancesCounter ==
    \A a, b \in VertexIds :
        \A w \in Weights :
            LET out == add_edge(Self, a, b, w)
            IN  /\ out.g.current_edge_id = current_edge_id + 1
                /\ out.ret # "Ok" =>
                       \A c, d \in VertexIds :
                           \A found \in Scan(out.g, c, d) :
                               LET next == create_or_update_edge_between(out.g, c, d, w, found)
                               IN  (next.ret = "Ok" /\ next.path = "create") =>
                                       next.val = current_edge_id + 1

\* add_edge has just returned an error, and the counter stands at 1 with no
\* edge id issued yet
C23_Witness ==
    /\ last.op = "add_edge"
    /\ last.ret # "Ok"
    /\ current_edge_id = 1
    /\ returned.edge = {}
    /\ DOMAIN vertices # {}

\* the tokens of a brand
TokensOf(brand) == {t \in DOMAIN tokens : tokens[t].brand = brand}

\* C24: at most one GhostToken exists per session brand: no operation of the
\* public interface makes a second token usable with the cells of the session.
C24_OneTokenPerSession ==
    \A brand \in Brands : Cardinality(TokensOf(brand)) <= 1

\* C25: while a write borrow of a cell of a session is alive, no other read or
\* write borrow of any cell of the same session is alive.
C25_WriteBorrowIsExclusive ==
    \A b1, b2 \in borrows :
        (b1 # b2 /\ b1.kind = "write") => cells[b1.cell] # cells[b2.cell]

\* the live edge cells of the heap
LiveEdges(h) == {e \in DOMAIN h : h[e].kind = "Edge" /\ h[e].live}

\* what other(id) gives on the edge cell behind edge, as the handle or 0 for none
OtherOf(h, edge, id, ub) ==
    LET other == Edge_other(h, edge, id, ub)
    IN  IF other.some THEN other.ptr ELSE 0

\* C26: for an edge with endpoints p and q, other(id) returns the handle of q when
\* id is the vertex id of p, the handle of p when id is the vertex id of q, and
\* none when id is the id of neither endpoint.
C26_OtherReturnsOppositeEndpoint ==
    \A edge \in LiveEdges(heap) : \A id \in VertexIds : \A ub \in UB(heap) :
        LET p == heap[edge].first
            q == heap[edge].second
        IN  (heap[p].live /\ heap[q].live) =>
                /\ id = heap[p].id => OtherOf(heap, edge, id, ub) = q
                /\ id = heap[q].id => OtherOf(heap, edge, id, ub) = p
                /\ (id # heap[p].id /\ id # heap[q].id)
                       => OtherOf(heap, edge, id, ub) = 0

\* a live edge between two live vertices, and one more vertex whose id is
\* neither endpoint's
C26_Witness ==
    \E edge \in LiveEdges(heap) :
        /\ heap[heap[edge].first].live
        /\ heap[heap[edge].second].live
        /\ \E v \in DOMAIN vertices :
               /\ v # heap[heap[edge].first].id
               /\ v # heap[heap[edge].second].id

\* the weight kept in the edge cell that the edge registry holds under id
StoredWeight(g, id) == g.heap[g.edges[id]].weight

\* what the callback f returns on seed item and the nodes of a and b, in this
\* order, read in graph g
Expected(g, f, item, a, b) == weight_fn(f, item, g.heap, g.vertices[a], g.vertices[b])

\* C27: after add_edge or create_or_update_edge_between has created an edge
\* between id_one and id_two, the weight stored in the new edge is what the one
\* invocation of the weight callback returned, the callback having been handed
\* the seed, the node of id_one and then the node of id_two, whose contents it
\* can read.
C27_StoredWeightIsCallbackResult ==
    \A a, b \in VertexIds : \A item \in Weights : \A f \in WeightFns :
        /\ LET out == add_edge_calling(Self, a, b, item, f)
           IN  out.path = "create" =>
                   /\ weight_fn_calls(out) = 1
                   /\ out.ret = "Ok"
                   /\ StoredWeight(out.g, out.val) = Expected(Self, f, item, a, b)
        /\ \A found \in Scan(Self, a, b) :
               LET out == create_or_update_edge_between_calling(Self, a, b, item, f, found)
               IN  out.path = "create" =>
                       /\ weight_fn_calls(out) = 1
                       /\ out.ret = "Ok"
                       /\ out.val \notin DOMAIN edges
                       /\ StoredWeight(out.g, out.val) = Expected(Self, f, item, a, b)

\* an edge has just been created with a weight other than zero, between two
\* vertices on which an order reading callback gives either answer
C27_Witness ==
    /\ last.op = "create_or_update_edge_between"
    /\ last.ret = "Ok"
    /\ last.path = "create"
    /\ \E e \in DOMAIN edges : heap[edges[e]].live /\ StoredWeight(Self, e) = 1

\* C28: when the add_edge of the edge variant returns an error, add_edge and
\* create_or_update_edge_between return AddEdgeError carrying that error, leave
\* edge_len as it was, and the graph puts no entry for the new edge id into an
\* adjacency map or into the edge registry.
C28_VariantErrorPropagates ==
    \A a, b \in VertexIds : \A w \in Weights : \A error \in EdgeErrors :
        /\ LET out == add_edge_refused(Self, a, b, w, error)
           IN  out.path = "create" =>
                   /\ out.ret = "AddEdgeError"
                   /\ out.val = error
                   /\ out.g.edge_len = edge_len
                   /\ out.g.edges = edges
                   /\ out.g.vertices = vertices
                   /\ out.g.heap = heap
        /\ \A found \in Scan(Self, a, b) :
               LET out == create_or_update_edge_between_refused(Self, a, b, w, found, error)
               IN  out.path = "create" =>
                       /\ out.ret = "AddEdgeError"
                       /\ out.val = error
                       /\ out.g.edge_len = edge_len
                       /\ out.g.edges = edges
                       /\ out.g.vertices = vertices
                       /\ out.g.heap = heap

\* a call has just returned AddEdgeError on a graph that has an edge
C28_Witness ==
    /\ last.op = "create_or_update_edge_between"
    /\ last.ret = "AddEdgeError"
    /\ last.path = "create"
    /\ DOMAIN edges # {}
    /\ edge_len = Cardinality(DOMAIN edges)

\* C29: remove_edge_between(a, a) for a vertex a of the registry, with or without
\* edges, returns an error and changes nothing: no edge is removed or destroyed,
\* and the two registries, the two counts and every adjacency map are as they
\* were.
C29_RemoveEdgeBetweenSelf ==
    \A a \in DOMAIN vertices :
        \A found \in Scan(Self, a, a) :
            LET out == remove_edge_between(Self, a, a, found)
            IN  /\ out.ret \notin {"Ok", "panic"}
                /\ Observed(out.g) = Observed(Self)

\* C30: in every reachable state two vertices of the registry share at most one
\* edge: no sequence of add_edge and create_or_update_edge_between calls, in
\* either argument order, leaves two edge ids in the adjacency maps of the same
\* two vertices.
C30_AtMostOneEdgePerPair ==
    \A a, b \in DOMAIN vertices :
        a # b => Cardinality(SharedKeys(Self, a, b)) <= 1

\* create_or_update_edge_between has just taken its update path while two
\* vertices share an edge that was created from the higher id to the lower
C30_Witness ==
    /\ last.op = "create_or_update_edge_between"
    /\ last.path = "update"
    /\ \E a, b \in DOMAIN vertices :
           /\ a < b
           /\ SharedKeys(Self, a, b) # {}
           /\ \E e \in SharedKeys(Self, a, b) :
                  /\ heap[edges[e]].live
                  /\ heap[heap[edges[e]].first].id = b
                  /\ heap[heap[edges[e]].second].id = a

\* the returns of the validation of an edge creating call
ValidationErrors == {"IdenticalVertex", "VertexNotFound", "AlreadyEdgeBetween"}

\* C31: a call of add_edge or create_or_update_edge_between invokes the weight
\* callback at most once, and not at all when it returns IdenticalVertex,
\* VertexNotFound or AlreadyEdgeBetween: the validation comes before the
\* callback.
C31_CallbackAfterValidation ==
    \A a, b \in VertexIds : \A w \in Weights :
        \A out \in EdgeCreatingCalls(a, b, w) :
            /\ weight_fn_calls(out) <= 1
            /\ out.ret \in ValidationErrors => weight_fn_calls(out) = 0

\* an edge creating call has just failed its validation on a graph that has two
\* vertices and an edge, and the callback did not run
C31_Witness ==
    /\ last.op \in {"add_edge", "create_or_update_edge_between"}
    /\ last.ret \in ValidationErrors
    /\ last.path = "none"
    /\ Cardinality(DOMAIN vertices) >= 2
    /\ Cardinality(DOMAIN edges) = 1

\* C32: a remove(v) that returns Ok leaves what is not incident to v as it was:
\* every other vertex is in the registry with the cell it had, the adjacency map
\* of every vertex that shares no edge with v is unchanged, every edge that is
\* not in the adjacency map of v is in the edge registry and in the adjacency
\* maps that held it, and the two id counters are unchanged.
C32_RemoveFrame ==
    \A v \in DOMAIN vertices :
        \A out \in RemoveCalls(v) :
            out.ret = "Ok" =>
                /\ \A u \in DOMAIN vertices \ {v} :
                       /\ u \in DOMAIN out.g.vertices
                       /\ out.g.vertices[u] = vertices[u]
                       /\ out.g.heap[vertices[u]].live = heap[vertices[u]].live
                       /\ SharedKeys(Self, u, v) = {} =>
                              out.g.heap[vertices[u]] = heap[vertices[u]]
                       /\ \A e \in DOMAIN Adj(Self, u) \ DOMAIN Adj(Self, v) :
                              /\ e \in DOMAIN Adj(out.g, u)
                              /\ Adj(out.g, u)[e] = Adj(Self, u)[e]
                /\ \A e \in DOMAIN edges \ DOMAIN Adj(Self, v) :
                       /\ e \in DOMAIN out.g.edges
                       /\ out.g.edges[e] = edges[e]
                       /\ out.g.heap[edges[e]] = heap[edges[e]]
                /\ out.g.current_vertex_id = current_vertex_id
                /\ out.g.current_edge_id = current_edge_id

\* remove has just returned Ok and destroyed a vertex and its edge, while two
\* other vertices of the registry still share a live edge
C32_Witness ==
    /\ last.op = "remove"
    /\ last.ret = "Ok"
    /\ ~last.uaf
    /\ \E p \in DOMAIN heap : heap[p].kind = "Edge" /\ ~heap[p].live
    /\ \E p \in DOMAIN heap : heap[p].kind = "Vertex" /\ ~heap[p].live
    /\ \E a, b \in DOMAIN vertices :
           /\ a # b
           /\ \E e \in SharedKeys(Self, a, b) : e \in DOMAIN edges /\ heap[edges[e]].live

\* C33: Shared::convert deallocates the source allocation exactly once, does not
\* run the destructor of the source payload before the payload is moved into
\* U::from (the payload is finalised at most once and never used after it was
\* destroyed), and returns a handle to a new allocation that holds the converted
\* value.
C33_ConvertMovesPayload ==
    /\ \A p \in DOMAIN heap : heap[p].kind = "Resource" => heap[p].drops <= 1
    /\ \A ptr \in Items(heap) : \A from \in Conversions :
           LET r == Shared_convert(heap, ptr, from)
           IN  /\ ~r.h[ptr].live
               /\ r.h[ptr].drops = 1
               /\ r.ptr \notin DOMAIN heap
               /\ r.h[r.ptr].live
               /\ r.h[r.ptr].kind = "Item"
               /\ ~r.uaf
               /\ \A p \in DOMAIN r.h : r.h[p].kind = "Resource" => r.h[p].drops <= 1
====
